---- MODULE Spec2Model ----
(***************************************************************************)
(* Timer Interrupt Interval Measurement Tool (TimerInterval.cpp).          *)
(*                                                                         *)
(* The model has two threads: the main thread, which runs main() and       *)
(* tiimt_main(), and the console control thread, which runs ctrl_handler() *)
(* once it is registered.  One action models one step of the source; pc    *)
(* is the position of the main thread.                                     *)
(*                                                                         *)
(* Real numbers (double) are modelled in fixed point with Scale units per  *)
(* 1.0; every fixed-point operation rounds towards minus infinity.  The    *)
(* smoothed result is kept as an exact fraction.                           *)
(***************************************************************************)
EXTENDS Integers, Sequences, FiniteSets, TLC

(***************************************************************************)
(* Program constants.                                                      *)
(***************************************************************************)
WINDOW_SIZE == 11

TRIALS == 5

SPINNER == <<"/", "-", "\\", "|">>

EXIT_SUCCESS == 0

(***************************************************************************)
(* Bounds of the model.                                                    *)
(***************************************************************************)
\* longest duration of one Sleep(1), in ticks of the performance counter
MaxSleep == 2

\* ticks that all sleeps together may take beyond one tick each
MaxLate == 3

\* iterations of the sampling loop that are explored
MaxIter == 15

\* largest configured window size explored by SpecCfg
MaxWindowSize == 17

\* ticks per second reported by the host's performance counter
HostFrequency == 1000

(***************************************************************************)
(* Fixed-point arithmetic standing for double.                             *)
(***************************************************************************)
\* fixed-point units per 1.0: the resolution of the modelled double
Scale == 10000

\* static const double PI = 3.14159265358979...
PI == (31416 * Scale) \div 10000

\* (a * b) / Scale rounded down, computed without leaving 32 bits
FMul(a, b) == (a \div Scale) * b + ((a % Scale) * b) \div Scale

\* (a * Scale) / b rounded down for b > 0, computed without leaving 32 bits
FDiv(a, b) == (a \div b) * Scale + ((a % b) * Scale) \div b

RECURSIVE SqrtIter(_, _, _)
\* largest r in lo..hi with r * r <= v  (v >= 0, lo * lo <= v)
SqrtIter(v, lo, hi) ==
    IF lo >= hi THEN lo
    ELSE LET mid == (lo + hi + 1) \div 2
         IN  IF mid * mid <= v THEN SqrtIter(v, mid, hi)
                               ELSE SqrtIter(v, lo, mid - 1)

\* sqrt(a) for a fixed-point a >= 0
sqrt(a) == SqrtIter(a * Scale, 0, 46340)

RECURSIVE ExpSeries(_, _, _, _)
\* sum of the terms (-t)^k / k! for k = n .. ExpTerms, given term = t^n / n!
ExpSeries(t, n, term, sign) ==
    IF term = 0 THEN 0
    ELSE sign * term + ExpSeries(t, n + 1, FMul(term, t) \div (n + 1), -sign)

\* exp(-1) = 0.36787944..., as the series gives it
EXP_M1 == ExpSeries(Scale, 0, Scale, 1)

RECURSIVE ExpNeg(_)
\* exp(-t) for a fixed-point t >= 0
ExpNeg(t) ==
    IF t >= Scale THEN FMul(EXP_M1, ExpNeg(t - Scale))
    ELSE ExpSeries(t, 0, Scale, 1)

\* exp(y) for a fixed-point y <= 0, the only arguments init_weights passes
exp(y) == ExpNeg(-y)

RECURSIVE SumSeq(_)
SumSeq(s) == IF s = <<>> THEN 0 ELSE Head(s) + SumSeq(Tail(s))

(***************************************************************************)
(* init_weights: the normalised Gaussian kernel, or the exception thrown   *)
(* for a filter size that is not positive and odd.                         *)
(***************************************************************************)
Sigma(filterSize) ==
    FDiv(FDiv(filterSize * Scale, 2 * Scale) - Scale, 3 * Scale)
        + FDiv(Scale, 3 * Scale)

C1(sigma) == FDiv(Scale, FMul(sigma, sqrt(FMul(2 * Scale, PI))))

C2(sigma) == FMul(2 * Scale, FMul(sigma, sigma))

\* the first loop without the casts to int32_t: i - offset wraps around below
\* the centre, and the exponential of so large a negative number is 0.0
RawWeightsUnsigned(filterSize) ==
    LET sigma  == Sigma(filterSize)
        offset == filterSize \div 2
        c1     == C1(sigma)
        c2     == C2(sigma)
    IN  [k \in 1..filterSize |->
            LET x == (k - 1) - offset
            IN  IF x < 0 THEN 0 ELSE FMul(c1, exp(-(FDiv(x * x * Scale, c2))))]

\* the first loop: weights[i] = c1 * exp(-(pow(x, 2.0) / c2)), i = 0 .. filterSize-1
RawWeights(filterSize) ==
    LET sigma  == Sigma(filterSize)
        offset == filterSize \div 2
        c1     == C1(sigma)
        c2     == C2(sigma)
    IN  [k \in 1..filterSize |->
            LET x == (k - 1) - offset
            IN  FMul(c1, exp(-(FDiv(x * x * Scale, c2))))]

\* the weights as the first loop leaves them
Unnormalized(w) == w

\* the second loop: weights[i] *= adjust, with adjust = 1.0 / totalWeight
Normalize(w) ==
    LET totalWeight == SumSeq(w)
        adjust      == FDiv(Scale, totalWeight)
    IN  [k \in 1..Len(w) |-> FMul(w[k], adjust)]

\* the size check with the parity test inverted
init_weights_even(filterSize) ==
    IF (filterSize < 1) \/ ((filterSize % 2) # 0)
    THEN [thrown |-> TRUE, weights |-> <<>>]
    ELSE [thrown |-> FALSE, weights |-> Normalize(RawWeights(filterSize))]

init_weights(filterSize) ==
    IF (filterSize < 1) \/ ((filterSize % 2) # 1)
    THEN [thrown |-> TRUE, weights |-> <<>>]
    ELSE [thrown |-> FALSE, weights |-> Normalize(RawWeights(filterSize))]

\* what init_weights gives for each window size of the model, computed once
WeightsOf == [n \in 0..(MaxWindowSize + 1) |-> init_weights(n)]

(***************************************************************************)
(* doMeasure: std::sort and the middle element.                            *)
(***************************************************************************)
\* the place of s[j] in the ascending order: after every smaller entry and
\* after the equal entries before it
Rank(s, j) ==
    Cardinality({x \in 1..Len(s) : s[x] < s[j] \/ (s[x] = s[j] /\ x < j)}) + 1

\* std::sort(delay.begin(), delay.end()): the ascending permutation of s
Sort(s) == [k \in 1..Len(s) |-> s[CHOOSE j \in 1..Len(s) : Rank(s, j) = k]]

\* the middle element of the deltas as measured, with the sort left out
MedianUnsorted(d) == d[(Len(d) \div 2) + 1]

\* return delay[delay.size() / 2] after the sort (index from 0)
Median(d) == Sort(d)[(Len(d) \div 2) + 1]

(***************************************************************************)
(* getFrequency, getTimerValue: the counter's value, or -1 when the host   *)
(* has no performance counter.                                             *)
(***************************************************************************)
getFrequency(supported) == IF supported THEN HostFrequency ELSE -1

getTimerValue(supported, ticks) == IF supported THEN ticks ELSE -1

(***************************************************************************)
(* getResult: the weighted sum of the window, over the frequency, in       *)
(* milliseconds; the exact fraction <<numerator, denominator>>.            *)
(***************************************************************************)
RECURSIVE WeightedTotal(_, _, _)
\* total += double(*iter) * weights[k++], from the k-th entry on
WeightedTotal(res, w, k) ==
    IF k > Len(res) THEN 0
    ELSE res[k] * w[k] + WeightedTotal(res, w, k + 1)

\* the quotient left in seconds: the factor 1000.0 forgotten
getResultSeconds(res, freq, w) == <<WeightedTotal(res, w, 1), freq * Scale>>

getResult(res, freq, w) == <<WeightedTotal(res, w, 1) * 1000, freq * Scale>>

(***************************************************************************)
(* The window: pop_front while it holds WINDOW_SIZE entries or more.       *)
(***************************************************************************)
\* a window that is never evicted from
PopNever(res, size) == res

\* a window that evicts its newest entry, not its oldest
PopNewest(res, size) ==
    IF Len(res) >= size THEN SubSeq(res, 1, size - 1) ELSE res

\* an eviction that begins one entry late: while(results.size() > WINDOW_SIZE)
PopWhileOver(res, size) == IF Len(res) > size THEN Tail(res) ELSE res

RECURSIVE PopWhileFull(_, _)
PopWhileFull(res, size) ==
    IF Len(res) >= size THEN PopWhileFull(Tail(res), size) ELSE res

\* a test that lets a window with any entry at all be displayed
WindowNonEmpty(res, size) == Len(res) >= 1

\* results.size() == WINDOW_SIZE
WindowFull(res, size) == Len(res) = size

(***************************************************************************)
(* State.                                                                  *)
(***************************************************************************)
VARIABLES
    pc,             \* position of the main thread
    debug,          \* the build defines _DEBUG
    windowSize,     \* the value WINDOW_SIZE is built with
    freqOK,         \* QueryPerformanceFrequency succeeds on this host
    counterOK,      \* QueryPerformanceCounter succeeds on this host
    now,            \* the performance counter, in ticks
    priorityClass,  \* the priority class of the process
    handlerSet,     \* ctrl_handler is registered
    g_bRunning,     \* static volatile bool g_bRunning
    frequency,      \* tiimt_main: const int64_t frequency
    weights,        \* tiimt_main: const std::vector<double> weights
    spinner,        \* tiimt_main: size_t spinner
    results,        \* tiimt_main: std::deque<int64_t> results
    i,              \* doMeasure: size_t i
    delay,          \* doMeasure: std::vector<int64_t> delay
    sample,         \* the value doMeasure returned, until it is pushed
    ret,            \* main: int ret
    exitCode,       \* exit code the program ended the process with
    console,        \* the lines printed so far
    diagnostic,     \* FatalAppExitA has shown its message
    pushed,         \* history: every sample pushed into the window
    entered,        \* history: entries into the loop body
    measures,       \* history: calls of doMeasure
    sleeps,         \* history: calls of Sleep(1)
    measured,       \* history: the deltas whose median waits to be pushed
    requests,       \* history: this iteration's priority requests, until it samples
    stop            \* history: where the main thread was when the flag was cleared

vars == <<pc, debug, windowSize, freqOK, counterOK, now, priorityClass,
          handlerSet, g_bRunning, frequency, weights, spinner, results, i,
          delay, sample, ret, exitCode, console, diagnostic, pushed, entered,
          measures, sleeps, measured, stop, requests>>

FATAL_EXIT == 666

NoDelay == [k \in 1..TRIALS |-> 0]

NoStop == [pc |-> "none", i |-> 0, sleeps |-> 0, measures |-> 0]

Terminal == {"exited", "unhandled"}

\* the process at the entry of main, built with one of the window sizes, on
\* a host whose performance counter is supported as hosts says
Start(sizes, hosts) ==
    /\ pc = "main"
    /\ debug \in BOOLEAN
    /\ windowSize \in sizes
    /\ freqOK \in hosts
    /\ counterOK \in hosts
    /\ now = 0
    /\ priorityClass = "NORMAL"
    /\ handlerSet = FALSE
    /\ g_bRunning = TRUE
    /\ frequency = 0
    /\ weights = <<>>
    /\ spinner = 0
    /\ results = <<>>
    /\ i = 0
    /\ delay = NoDelay
    /\ sample = 0
    /\ ret = -1
    /\ exitCode = -1
    /\ console = <<>>
    /\ diagnostic = FALSE
    /\ pushed = <<>>
    /\ entered = 0
    /\ measures = 0
    /\ sleeps = 0
    /\ measured = <<>>
    /\ requests = <<>>
    /\ stop = NoStop

Init == Start({WINDOW_SIZE}, BOOLEAN)

(***************************************************************************)
(* main, up to the call of tiimt_main.                                     *)
(***************************************************************************)
main_start ==
    /\ pc = "main"
    /\ pc' = "tiimt_main"
    /\ ret' = -1
    /\ handlerSet' = ~debug
    /\ UNCHANGED <<debug, windowSize, freqOK, counterOK, now, priorityClass,
                   g_bRunning, frequency, weights, spinner, results, i, delay,
                   sample, exitCode, console, diagnostic, pushed, entered,
                   measures, sleeps, measured, stop, requests>>

(***************************************************************************)
(* tiimt_main, up to the loop.  An exception thrown by init_weights        *)
(* leaves tiimt_main: the __except block of main ends the process, or,     *)
(* in a _DEBUG build, nothing catches it.                                  *)
(***************************************************************************)
\* an __except block that swallows the exception: main goes on to return ret
tiimt_main_init_swallowed ==
    /\ pc = "tiimt_main"
    /\ frequency' = getFrequency(freqOK)
    /\ LET r == WeightsOf[windowSize]
       IN  /\ weights' = r.weights
           /\ pc' = IF r.thrown THEN "main_return" ELSE "while"
    /\ spinner' = 0
    /\ results' = <<>>
    /\ console' = console \o <<[text |-> "banner"], [text |-> "Initializing..."]>>
    /\ UNCHANGED <<debug, windowSize, freqOK, counterOK, now, priorityClass,
                   handlerSet, g_bRunning, i, delay, sample, ret, exitCode,
                   diagnostic, pushed, entered, measures, sleeps, measured,
                   stop, requests>>

\* an initialisation that gives up when the host has no performance counter
tiimt_main_init_checked ==
    /\ pc = "tiimt_main"
    /\ frequency' = getFrequency(freqOK)
    /\ LET r == WeightsOf[windowSize]
       IN  IF r.thrown \/ getFrequency(freqOK) < 0
           THEN /\ weights' = weights
                /\ pc' = IF debug THEN "unhandled" ELSE "exited"
                /\ diagnostic' = ~debug
                /\ exitCode' = IF debug THEN exitCode ELSE FATAL_EXIT
           ELSE /\ weights' = r.weights
                /\ pc' = "while"
                /\ UNCHANGED <<diagnostic, exitCode>>
    /\ spinner' = 0
    /\ results' = <<>>
    /\ console' = console \o <<[text |-> "banner"], [text |-> "Initializing..."]>>
    /\ UNCHANGED <<debug, windowSize, freqOK, counterOK, now, priorityClass,
                   handlerSet, g_bRunning, i, delay, sample, ret, pushed,
                   entered, measures, sleeps, measured, stop, requests>>

tiimt_main_init ==
    /\ pc = "tiimt_main"
    /\ frequency' = getFrequency(freqOK)
    /\ LET r == WeightsOf[windowSize]
       IN  IF r.thrown
           THEN /\ weights' = weights
                /\ pc' = IF debug THEN "unhandled" ELSE "exited"
                /\ diagnostic' = ~debug
                /\ exitCode' = IF debug THEN exitCode ELSE FATAL_EXIT
           ELSE /\ weights' = r.weights
                /\ pc' = "while"
                /\ UNCHANGED <<diagnostic, exitCode>>
    /\ spinner' = 0
    /\ results' = <<>>
    /\ console' = console \o <<[text |-> "banner"], [text |-> "Initializing..."]>>
    /\ UNCHANGED <<debug, windowSize, freqOK, counterOK, now, priorityClass,
                   handlerSet, g_bRunning, i, delay, sample, ret, pushed,
                   entered, measures, sleeps, measured, stop, requests>>

(***************************************************************************)
(* while(g_bRunning)                                                       *)
(***************************************************************************)
\* a loop that never reads the flag
loop_check_forever ==
    /\ pc = "while"
    /\ entered < MaxIter
    /\ pc' = "priority"
    /\ entered' = entered + 1
    /\ UNCHANGED <<debug, windowSize, freqOK, counterOK, now, priorityClass,
                   handlerSet, g_bRunning, frequency, weights, spinner,
                   results, i, delay, sample, ret, exitCode, console,
                   diagnostic, pushed, measures, sleeps, measured, stop,
                   requests>>

\* a loop that goes on until the window is full, whatever the flag says
loop_check_fill ==
    /\ pc = "while"
    /\ entered < MaxIter
    /\ pc' = IF g_bRunning \/ Len(results) < windowSize THEN "priority" ELSE "leave"
    /\ entered' = IF g_bRunning \/ Len(results) < windowSize
                  THEN entered + 1 ELSE entered
    /\ UNCHANGED <<debug, windowSize, freqOK, counterOK, now, priorityClass,
                   handlerSet, g_bRunning, frequency, weights, spinner,
                   results, i, delay, sample, ret, exitCode, console,
                   diagnostic, pushed, measures, sleeps, measured, stop,
                   requests>>

\* a loop that tests the flag at its end: do { ... } while(g_bRunning)
loop_check_do_while ==
    /\ pc = "while"
    /\ (g_bRunning \/ entered = 0) => entered < MaxIter
    /\ pc' = IF g_bRunning \/ entered = 0 THEN "priority" ELSE "leave"
    /\ entered' = IF g_bRunning \/ entered = 0 THEN entered + 1 ELSE entered
    /\ UNCHANGED <<debug, windowSize, freqOK, counterOK, now, priorityClass,
                   handlerSet, g_bRunning, frequency, weights, spinner,
                   results, i, delay, sample, ret, exitCode, console,
                   diagnostic, pushed, measures, sleeps, measured, stop,
                   requests>>

loop_check ==
    /\ pc = "while"
    /\ g_bRunning => entered < MaxIter
    /\ pc' = IF g_bRunning THEN "priority" ELSE "leave"
    /\ entered' = IF g_bRunning THEN entered + 1 ELSE entered
    /\ UNCHANGED <<debug, windowSize, freqOK, counterOK, now, priorityClass,
                   handlerSet, g_bRunning, frequency, weights, spinner,
                   results, i, delay, sample, ret, exitCode, console,
                   diagnostic, pushed, measures, sleeps, measured, stop,
                   requests>>

(***************************************************************************)
(* SetPriorityClass(REALTIME_PRIORITY_CLASS), and HIGH_PRIORITY_CLASS      *)
(* when that fails.                                                        *)
(***************************************************************************)
\* SetPriorityClass(REALTIME_PRIORITY_CLASS) is all: there is no second request
request_realtime_only ==
    /\ pc = "priority"
    /\ \E granted \in BOOLEAN :
          /\ priorityClass' = IF granted THEN "REALTIME" ELSE priorityClass
          /\ requests' = Append(requests, [class |-> "REALTIME", granted |-> granted])
    /\ pc' = "evict"
    /\ UNCHANGED <<debug, windowSize, freqOK, counterOK, now, handlerSet,
                   g_bRunning, frequency, weights, spinner, results, i,
                   delay, sample, ret, exitCode, console, diagnostic, pushed,
                   entered, measures, sleeps, measured, stop>>

request_realtime ==
    /\ pc = "priority"
    /\ \E granted \in BOOLEAN :
          /\ priorityClass' = IF granted THEN "REALTIME" ELSE priorityClass
          /\ pc' = IF granted THEN "evict" ELSE "priority_high"
          /\ requests' = Append(requests, [class |-> "REALTIME", granted |-> granted])
    /\ UNCHANGED <<debug, windowSize, freqOK, counterOK, now, handlerSet,
                   g_bRunning, frequency, weights, spinner, results, i,
                   delay, sample, ret, exitCode, console, diagnostic, pushed,
                   entered, measures, sleeps, measured, stop>>

request_high ==
    /\ pc = "priority_high"
    /\ \E granted \in BOOLEAN :
          /\ priorityClass' = IF granted THEN "HIGH" ELSE priorityClass
          /\ requests' = Append(requests, [class |-> "HIGH", granted |-> granted])
    /\ pc' = "evict"
    /\ UNCHANGED <<debug, windowSize, freqOK, counterOK, now, handlerSet,
                   g_bRunning, frequency, weights, spinner, results, i,
                   delay, sample, ret, exitCode, console, diagnostic, pushed,
                   entered, measures, sleeps, measured, stop>>

(***************************************************************************)
(* while(results.size() >= WINDOW_SIZE) results.pop_front(); then the      *)
(* call of doMeasure begins.                                               *)
(***************************************************************************)
evict ==
    /\ pc = "evict"
    /\ results' = PopWhileFull(results, windowSize)
    /\ delay' = NoDelay
    /\ i' = 0
    /\ measures' = measures + 1
    /\ requests' = <<>>
    /\ pc' = "measure"
    /\ UNCHANGED <<debug, windowSize, freqOK, counterOK, now, priorityClass,
                   handlerSet, g_bRunning, frequency, weights, spinner,
                   sample, ret, exitCode, console, diagnostic, pushed,
                   entered, sleeps, measured, stop>>

(***************************************************************************)
(* doMeasure: one trial, timeBeg / Sleep(1) / timeEnd.  The sleep takes d  *)
(* ticks of the counter.                                                   *)
(***************************************************************************)
\* a trial loop that breaks as soon as the flag is cleared
trial_cancellable ==
    /\ pc = "measure"
    /\ i < Len(delay)
    /\ IF g_bRunning
       THEN /\ \E d \in 1..MaxSleep :
                  /\ (now + d) - (sleeps + 1) <= MaxLate
                  /\ LET timeBeg == getTimerValue(counterOK, now)
                         timeEnd == getTimerValue(counterOK, now + d)
                     IN  delay' = [delay EXCEPT ![i + 1] = timeEnd - timeBeg]
                  /\ now' = now + d
            /\ i' = i + 1
            /\ sleeps' = sleeps + 1
            /\ pc' = IF i + 1 < Len(delay) THEN "measure" ELSE "sort"
       ELSE /\ pc' = "sort"
            /\ UNCHANGED <<delay, now, i, sleeps>>
    /\ UNCHANGED <<debug, windowSize, freqOK, counterOK, priorityClass,
                   handlerSet, g_bRunning, frequency, weights, spinner,
                   results, sample, ret, exitCode, console, diagnostic, pushed,
                   entered, measures, measured, stop, requests>>

trial ==
    /\ pc = "measure"
    /\ i < Len(delay)
    /\ \E d \in 1..MaxSleep :
          /\ (now + d) - (sleeps + 1) <= MaxLate
          /\ LET timeBeg == getTimerValue(counterOK, now)
                 timeEnd == getTimerValue(counterOK, now + d)
             IN  delay' = [delay EXCEPT ![i + 1] = timeEnd - timeBeg]
          /\ now' = now + d
    /\ i' = i + 1
    /\ sleeps' = sleeps + 1
    /\ pc' = IF i + 1 < Len(delay) THEN "measure" ELSE "sort"
    /\ UNCHANGED <<debug, windowSize, freqOK, counterOK, priorityClass,
                   handlerSet, g_bRunning, frequency, weights, spinner,
                   results, sample, ret, exitCode, console, diagnostic, pushed,
                   entered, measures, measured, stop, requests>>

doMeasure_return ==
    /\ pc = "sort"
    /\ sample' = Median(delay)
    /\ measured' = delay
    /\ delay' = NoDelay
    /\ i' = 0
    /\ pc' = "push"
    /\ UNCHANGED <<debug, windowSize, freqOK, counterOK, now, priorityClass,
                   handlerSet, g_bRunning, frequency, weights, spinner,
                   results, ret, exitCode, console, diagnostic, pushed,
                   entered, measures, sleeps, stop, requests>>

(***************************************************************************)
(* results.push_back(doMeasure())                                          *)
(***************************************************************************)
push_back ==
    /\ pc = "push"
    /\ results' = Append(results, sample)
    /\ pushed' = Append(pushed, sample)
    /\ measured' = <<>>
    /\ sample' = 0
    /\ pc' = "display"
    /\ UNCHANGED <<debug, windowSize, freqOK, counterOK, now, priorityClass,
                   handlerSet, g_bRunning, frequency, weights, spinner, i,
                   delay, ret, exitCode, console, diagnostic, entered,
                   measures, sleeps, stop, requests>>

(***************************************************************************)
(* if(results.size() == WINDOW_SIZE): getResult, printf, spinner.          *)
(***************************************************************************)
\* a spinner that advances in every iteration, displayed or not
display_every ==
    /\ pc = "display"
    /\ IF WindowFull(results, windowSize)
       THEN console' = Append(console,
                    [text   |-> "Current Timer Interval",
                     result |-> getResult(results, frequency, weights),
                     frame  |-> SPINNER[spinner + 1]])
       ELSE UNCHANGED console
    /\ spinner' = (spinner + 1) % 4
    /\ pc' = "while"
    /\ UNCHANGED <<debug, windowSize, freqOK, counterOK, now, priorityClass,
                   handlerSet, g_bRunning, frequency, weights, results, i,
                   delay, sample, ret, exitCode, diagnostic, pushed, entered,
                   measures, sleeps, measured, stop, requests>>

display ==
    /\ pc = "display"
    /\ IF WindowFull(results, windowSize)
       THEN /\ console' = Append(console,
                    [text   |-> "Current Timer Interval",
                     result |-> getResult(results, frequency, weights),
                     frame  |-> SPINNER[spinner + 1]])
            /\ spinner' = (spinner + 1) % 4
       ELSE UNCHANGED <<console, spinner>>
    /\ pc' = "while"
    /\ UNCHANGED <<debug, windowSize, freqOK, counterOK, now, priorityClass,
                   handlerSet, g_bRunning, frequency, weights, results, i,
                   delay, sample, ret, exitCode, diagnostic, pushed, entered,
                   measures, sleeps, measured, stop, requests>>

(***************************************************************************)
(* After the loop: the notice, return EXIT_SUCCESS; main returns ret.      *)
(***************************************************************************)
tiimt_main_return ==
    /\ pc = "leave"
    /\ console' = Append(console, [text |-> "CTRL+C received"])
    /\ ret' = EXIT_SUCCESS
    /\ pc' = "main_return"
    /\ UNCHANGED <<debug, windowSize, freqOK, counterOK, now, priorityClass,
                   handlerSet, g_bRunning, frequency, weights, spinner,
                   results, i, delay, sample, exitCode, diagnostic, pushed,
                   entered, measures, sleeps, measured, stop, requests>>

main_return ==
    /\ pc = "main_return"
    /\ exitCode' = ret
    /\ pc' = "exited"
    /\ UNCHANGED <<debug, windowSize, freqOK, counterOK, now, priorityClass,
                   handlerSet, g_bRunning, frequency, weights, spinner,
                   results, i, delay, sample, ret, console, diagnostic, pushed,
                   entered, measures, sleeps, measured, stop, requests>>

(***************************************************************************)
(* ctrl_handler, on the console control thread.                            *)
(***************************************************************************)
\* a handler that flips the flag: a second CTRL+C resumes the loop
ctrl_handler_toggle ==
    /\ handlerSet
    /\ pc \notin Terminal
    /\ g_bRunning' = ~g_bRunning
    /\ stop' = IF g_bRunning
               THEN [pc |-> pc, i |-> i, sleeps |-> sleeps, measures |-> measures]
               ELSE stop
    /\ UNCHANGED <<pc, debug, windowSize, freqOK, counterOK, now,
                   priorityClass, handlerSet, frequency, weights, spinner,
                   results, i, delay, sample, ret, exitCode, console,
                   diagnostic, pushed, entered, measures, sleeps, measured,
                   requests>>

\* a handler that prints the notice itself
ctrl_handler_notice ==
    /\ handlerSet
    /\ pc \notin Terminal
    /\ g_bRunning' = FALSE
    /\ console' = IF g_bRunning
                  THEN Append(console, [text |-> "CTRL+C received"])
                  ELSE console
    /\ stop' = IF g_bRunning
               THEN [pc |-> pc, i |-> i, sleeps |-> sleeps, measures |-> measures]
               ELSE stop
    /\ UNCHANGED <<pc, debug, windowSize, freqOK, counterOK, now,
                   priorityClass, handlerSet, frequency, weights, spinner,
                   results, i, delay, sample, ret, exitCode, diagnostic,
                   pushed, entered, measures, sleeps, measured, requests>>

ctrl_handler ==
    /\ handlerSet
    /\ pc \notin Terminal
    /\ g_bRunning' = FALSE
    /\ stop' = IF g_bRunning
               THEN [pc |-> pc, i |-> i, sleeps |-> sleeps, measures |-> measures]
               ELSE stop
    /\ UNCHANGED <<pc, debug, windowSize, freqOK, counterOK, now,
                   priorityClass, handlerSet, frequency, weights, spinner,
                   results, i, delay, sample, ret, exitCode, console,
                   diagnostic, pushed, entered, measures, sleeps, measured,
                   requests>>

MainStep ==
    \/ main_start
    \/ tiimt_main_init
    \/ loop_check
    \/ request_realtime
    \/ request_high
    \/ evict
    \/ trial
    \/ doMeasure_return
    \/ push_back
    \/ display
    \/ tiimt_main_return
    \/ main_return

Next == MainStep \/ ctrl_handler

\* the program as built: WINDOW_SIZE is 11
Spec == Init /\ [][Next]_vars

\* the main thread keeps running: every Sleep(1) returns
InitLive == Start({WINDOW_SIZE}, {FALSE})

LiveSpec == InitLive /\ [][Next]_vars /\ WF_vars(MainStep)

\* the program built with any window size up to MaxWindowSize, on a host
\* without a performance counter
InitCfg == Start(0..MaxWindowSize, {FALSE})

SpecCfg == InitCfg /\ [][Next]_vars

(***************************************************************************)
(* doMeasure on its own: the first call has run its five trials, with      *)
(* every combination of deltas out of DeltaSet.                            *)
(***************************************************************************)
MaxDeltaRank == 5

DeltaSet == {2 * k - 1 : k \in 1..MaxDeltaRank}

InitMeasure ==
    /\ pc = "sort"
    /\ debug = FALSE
    /\ windowSize = WINDOW_SIZE
    /\ freqOK = TRUE
    /\ counterOK = TRUE
    /\ delay \in [1..TRIALS -> DeltaSet]
    /\ now = SumSeq(delay)
    /\ priorityClass \in {"REALTIME", "HIGH", "NORMAL"}
    /\ handlerSet = TRUE
    /\ g_bRunning \in BOOLEAN
    /\ frequency = getFrequency(TRUE)
    /\ weights = WeightsOf[WINDOW_SIZE].weights
    /\ spinner = 0
    /\ results = <<>>
    /\ i = TRIALS
    /\ sample = 0
    /\ ret = -1
    /\ exitCode = -1
    /\ console = <<[text |-> "banner"], [text |-> "Initializing..."]>>
    /\ diagnostic = FALSE
    /\ pushed = <<>>
    /\ entered = 1
    /\ measures = 1
    /\ sleeps = TRIALS
    /\ measured = <<>>
    /\ requests = <<>>
    /\ stop = IF g_bRunning THEN NoStop
              ELSE [pc |-> "sort", i |-> TRIALS, sleeps |-> TRIALS, measures |-> 1]

NextMeasure == doMeasure_return \/ push_back

SpecMeasure == InitMeasure /\ [][NextMeasure]_vars

(***************************************************************************)
(* getResult on its own: the window is full of one value, the weights are  *)
(* any of a family of vectors that sum to 1.0, and the frequency is the    *)
(* host's or the -1 of an unsupported counter.                             *)
(***************************************************************************)
MaxValue == 4

\* the whole weight on entry p, but for the share a, which is on entry q
TwoPoint(p, q, a) ==
    [k \in 1..WINDOW_SIZE |->
        (IF k = p THEN Scale - a ELSE 0) + (IF k = q THEN a ELSE 0)]

\* the weights of init_weights with the rounding remainder put on the centre
Recentred(w) ==
    [w EXCEPT ![(Len(w) \div 2) + 1] = @ + (Scale - SumSeq(w))]

UnitWeights ==
    {TwoPoint(p, q, a) : p \in 1..WINDOW_SIZE, q \in 1..WINDOW_SIZE,
                         a \in {0, Scale \div 4, Scale \div 2}}
        \cup {Recentred(WeightsOf[WINDOW_SIZE].weights)}

InitResult ==
    /\ pc = "display"
    /\ debug = FALSE
    /\ windowSize = WINDOW_SIZE
    /\ freqOK \in BOOLEAN
    /\ counterOK = TRUE
    /\ \E v \in 1..MaxValue :
          /\ results = [k \in 1..WINDOW_SIZE |-> v]
          /\ now = WINDOW_SIZE * TRIALS * v
    /\ priorityClass \in {"REALTIME", "HIGH", "NORMAL"}
    /\ handlerSet = TRUE
    /\ g_bRunning = TRUE
    /\ frequency = getFrequency(freqOK)
    /\ weights \in UnitWeights
    /\ spinner = 0
    /\ i = 0
    /\ delay = NoDelay
    /\ sample = 0
    /\ ret = -1
    /\ exitCode = -1
    /\ console = <<[text |-> "banner"], [text |-> "Initializing..."]>>
    /\ diagnostic = FALSE
    /\ pushed = results
    /\ entered = WINDOW_SIZE
    /\ measures = WINDOW_SIZE
    /\ sleeps = WINDOW_SIZE * TRIALS
    /\ measured = <<>>
    /\ requests = <<>>
    /\ stop = NoStop

NextResult == display

SpecResult == InitResult /\ [][NextResult]_vars

(***************************************************************************)
(* Properties.                                                             *)
(***************************************************************************)
Min(a, b) == IF a <= b THEN a ELSE b

\* the last n entries of s
LastN(s, n) == SubSeq(s, Len(s) - n + 1, Len(s))

\* the positions of one sample: from the call of doMeasure to the push
Sampling == {"measure", "sort", "push"}

Notice == \E k \in 1..Len(console) : console[k].text = "CTRL+C received"

Displayed == \E k \in 1..Len(console) : console[k].text = "Current Timer Interval"

\* tiimt_main has run its initialisation
Initialized == pc \notin {"main", "tiimt_main"}

\* C1: a shutdown request never interrupts the iteration in flight.  The step
\* that clears the flag leaves the main thread and its sample where they are,
\* and the loop is left only from the check at its top, when every sample
\* begun has run its five trials and has been pushed.
C1_NoExitMidSample ==
    [][ /\ (g_bRunning /\ ~g_bRunning') =>
              UNCHANGED <<pc, i, delay, sample, results, pushed, sleeps>>
        /\ (pc # "leave" /\ pc' = "leave") =>
              /\ pc = "while"
              /\ measures = entered
              /\ sleeps = TRIALS * measures
              /\ Len(pushed) = measures ]_vars

\* the loop has been left after a request that came between two trials
C1_Witness ==
    /\ pc = "leave"
    /\ stop.pc = "measure"
    /\ stop.i \in 1..(TRIALS - 1)
    /\ sleeps = TRIALS * measures
    /\ Len(pushed) = measures

\* C2: the window never holds more than WINDOW_SIZE entries.
C2_WindowBounded == Len(results) <= WINDOW_SIZE

\* the window is full after an eviction
C2_Witness == Len(results) = WINDOW_SIZE /\ Len(pushed) > WINDOW_SIZE

\* C3: eviction is first in, first out.  Outside a sample, after k pushes the
\* window is the last min(k, WINDOW_SIZE) samples pushed, in their order.
C3_Fifo ==
    pc \notin Sampling =>
        results = LastN(pushed, Min(Len(pushed), WINDOW_SIZE))

\* WINDOW_SIZE + 1 samples were pushed, the first unlike the others: the
\* window is s2 .. s12
C3_Witness ==
    /\ pc = "display"
    /\ Len(pushed) = WINDOW_SIZE + 1
    /\ results = SubSeq(pushed, 2, WINDOW_SIZE + 1)
    /\ pushed[1] # pushed[2]

\* C4: getResult is called only with a full window, which is as long as the
\* weight vector.
C4_ComputeOnFullWindow ==
    [][ (pc = "display" /\ console' # console) =>
            /\ Len(results) = WINDOW_SIZE
            /\ Len(weights) = WINDOW_SIZE ]_vars

\* a result was displayed
C4_Witness ==
    /\ Displayed
    /\ pc = "while"
    /\ Len(results) = WINDOW_SIZE
    /\ Len(weights) = WINDOW_SIZE

\* m is the middle element of d in ascending order: it occurs in d, at most
\* Len(d) \div 2 entries are less and at most as many are greater
IsMedian(m, d) ==
    /\ \E k \in 1..Len(d) : d[k] = m
    /\ Cardinality({k \in 1..Len(d) : d[k] < m}) <= Len(d) \div 2
    /\ Cardinality({k \in 1..Len(d) : d[k] > m}) <= Len(d) \div 2

\* C5: doMeasure returns the median of its five deltas, whatever their order
\* and with duplicates; the deltas 5, 1, 9, 3, 7 give 5.
C5_Median ==
    pc = "push" =>
        /\ Len(measured) = TRIALS
        /\ IsMedian(sample, measured)
        /\ (measured = <<5, 1, 9, 3, 7>> => sample = 5)

C5_Witness == pc = "push" /\ measured = <<5, 1, 9, 3, 7>> /\ sample = 5

\* the program has ended as main returns EXIT_SUCCESS, the notice printed
Stopped == pc = "exited" /\ exitCode = EXIT_SUCCESS /\ Notice

\* C6: once the flag is cleared, the program ends in Stopped.
C6_EventuallyStopped == (~g_bRunning) ~> Stopped

C6_Witness == Stopped /\ ~g_bRunning /\ stop.pc = "measure"

\* C7: after the flag is cleared the loop sleeps at most TRIALS times more,
\* and begins at most the one sample whose iteration had been entered.
C7_ShutdownLatency ==
    stop.pc # "none" =>
        /\ sleeps - stop.sleeps <= TRIALS
        /\ measures - stop.measures <= 1
        /\ (measures - stop.measures = 1 =>
                stop.pc \in {"priority", "priority_high", "evict"})

\* the worst case: the flag was cleared just after the check, five sleeps ago
C7_Witness == pc = "leave" /\ sleeps - stop.sleeps = TRIALS

\* the process was ended by the exception of init_weights
Faulted == pc = "unhandled" \/ (pc = "exited" /\ exitCode = FATAL_EXIT)

\* C8: init_weights throws for every size that is even or not positive, and
\* for no odd positive size.
C8_InvalidSize ==
    Initialized => (Faulted <=> (windowSize % 2 = 0 \/ windowSize <= 0))

C8_Witness == Faulted /\ windowSize = 0

\* what a fault at startup leaves behind: nothing of the loop has happened,
\* no notice, no success status
NothingRan ==
    /\ entered = 0
    /\ sleeps = 0
    /\ priorityClass = "NORMAL"
    /\ ~Displayed
    /\ ~Notice
    /\ ret # EXIT_SUCCESS
    /\ exitCode # EXIT_SUCCESS

\* C9 as stated: every fault of tiimt_main ends the process in the __except
\* block of main, with its diagnostic and its exit code.
C9_AlwaysGuarded ==
    (Initialized /\ (windowSize % 2 = 0 \/ windowSize <= 0)) =>
        /\ pc = "exited"
        /\ diagnostic
        /\ exitCode = FATAL_EXIT
        /\ NothingRan

\* C9 amended: in a build without _DEBUG the fault ends the process in the
\* __except block of main; in a _DEBUG build nothing catches it and the
\* program shows no diagnostic of its own.  In both builds nothing of the
\* loop has run, no notice is printed and no success status is returned.
C9_GuardedUnlessDebug ==
    (Initialized /\ (windowSize % 2 = 0 \/ windowSize <= 0)) =>
        /\ NothingRan
        /\ ~debug => (pc = "exited" /\ diagnostic /\ exitCode = FATAL_EXIT)
        /\ debug => (pc = "unhandled" /\ ~diagnostic)

C9_Witness ==
    /\ ~debug
    /\ windowSize = 2
    /\ pc = "exited"
    /\ diagnostic
    /\ exitCode = FATAL_EXIT

\* C10: for an odd positive size the weight vector has that many entries,
\* none negative, and sums to 1.0 within the rounding of the arithmetic:
\* one unit for each entry and for adjust.
C10_NormalizedWeights ==
    (Initialized /\ windowSize % 2 = 1 /\ windowSize > 0) =>
        /\ Len(weights) = windowSize
        /\ \A k \in 1..Len(weights) : weights[k] >= 0
        /\ SumSeq(weights) <= Scale
        /\ Scale - SumSeq(weights) <= windowSize + 3

C10_Witness ==
    /\ pc = "while"
    /\ windowSize = WINDOW_SIZE
    /\ Len(weights) = WINDOW_SIZE
    /\ Scale - SumSeq(weights) \in 0..(WINDOW_SIZE + 3)
    /\ weights[1] < weights[(WINDOW_SIZE \div 2) + 1]

\* C11: the weight vector is symmetric about its centre: for an odd positive
\* size n, weights[i] = weights[n - 1 - i] for every index i (the sequence
\* of the model is indexed from 1, so entry k mirrors entry n + 1 - k).
C11_SymmetricWeights ==
    (Initialized /\ windowSize % 2 = 1 /\ windowSize > 0) =>
        \A k \in 1..Len(weights) : weights[k] = weights[Len(weights) + 1 - k]

C11_Witness ==
    /\ pc = "while"
    /\ windowSize = WINDOW_SIZE
    /\ Len(weights) = WINDOW_SIZE
    /\ weights[1] = weights[WINDOW_SIZE]
    /\ weights[1] < weights[2]
    /\ weights[2] = weights[WINDOW_SIZE - 1]

\* C12: for a full window whose entries all equal v, and any weight vector
\* of the window's length that sums to 1.0, getResult gives
\* (v / frequency) * 1000.0 whatever the distribution of the weights: the
\* displayed fraction is v * 1000 over frequency, both in units of 1/Scale.
\* With v = 1 tick at 1000 ticks per second, as with 10^6 ticks at 10^9,
\* that is 1.0 ms.
C12_EqualWindow ==
    ( /\ Displayed
      /\ Len(results) = Len(weights)
      /\ SumSeq(weights) = Scale
      /\ \A k \in 1..Len(results) : results[k] = results[1] ) =>
        console[Len(console)].result =
            <<results[1] * 1000 * Scale, frequency * Scale>>

C12_Witness ==
    /\ pc = "while"
    /\ Displayed
    /\ Len(results) = WINDOW_SIZE
    /\ \A k \in 1..WINDOW_SIZE : results[k] = 1
    /\ SumSeq(weights) = Scale
    /\ weights[1] = Scale \div 4
    /\ weights[WINDOW_SIZE] = Scale - (Scale \div 4)
    /\ frequency = HostFrequency
    /\ console[Len(console)].result = <<1000 * Scale, HostFrequency * Scale>>

\* the positions after the loop
Left == {"leave", "main_return", "exited"}

\* C13: an unsupported clock is never a failure path.  When the frequency
\* query or the tick query fails, the sentinel -1 is what the program goes on
\* with: the frequency is -1, every delta is -1 - (-1) = 0; no fatal exit and
\* no diagnostic happens; the main thread always has a next step (it
\* initialises, measures, pushes, and displays once the window is full) until
\* it has exited; and the loop is left only with the flag cleared.
C13_UnsupportedClock ==
    (~freqOK \/ ~counterOK) =>
        /\ ~Faulted
        /\ ~diagnostic
        /\ (Initialized /\ ~freqOK) => frequency = -1
        /\ ~counterOK => \A k \in 1..Len(pushed) : pushed[k] = 0
        /\ (pc = "while" /\ Len(pushed) >= WINDOW_SIZE) =>
              /\ Displayed
              /\ console[Len(console)].result =
                    getResult(LastN(pushed, WINDOW_SIZE), frequency, weights)
        /\ pc \in Left => ~g_bRunning
        /\ (pc \notin Terminal /\ ~(pc = "while" /\ g_bRunning /\ entered >= MaxIter))
              => ENABLED MainStep

C13_Witness ==
    /\ ~freqOK
    /\ ~counterOK
    /\ frequency = -1
    /\ Len(pushed) > WINDOW_SIZE
    /\ Displayed
    /\ pc = "exited"
    /\ exitCode = EXIT_SUCCESS

\* the lines that show a smoothed result
DisplayLines == {k \in 1..Len(console) : console[k].text = "Current Timer Interval"}

\* the passes through the loop body that have run to their end
Completed == IF pc \in {"while"} \cup Left THEN entered ELSE entered - 1

\* C14: the smoothed result is displayed in exactly the iterations that end
\* with a full window.  After k completed iterations there are k - 10 lines
\* with a result, and none while k is 10 or less: the first WINDOW_SIZE - 1
\* iterations display nothing, every iteration from the WINDOW_SIZE-th on
\* displays once; from then on the window is full again after each push.
C14_DisplayWhenFull ==
    (pc \in {"while", "priority", "priority_high", "evict", "measure", "sort",
             "push", "display"} \cup Left) =>
        /\ Cardinality(DisplayLines) =
              IF Completed >= WINDOW_SIZE THEN Completed - (WINDOW_SIZE - 1) ELSE 0
        /\ (pc = "display" /\ entered >= WINDOW_SIZE) => Len(results) = WINDOW_SIZE
        /\ (pc = "display" /\ entered < WINDOW_SIZE) => Len(results) = entered

C14_Witness ==
    /\ pc = "while"
    /\ entered = WINDOW_SIZE + 2
    /\ Cardinality(DisplayLines) = 3
    /\ g_bRunning

\* C15: the spinner index is always one of 0..3, and the lines that show a
\* result carry the frames / - \ | in that cyclic order, the first of them
\* the frame /, each one frame further than the line before it: one frame
\* for each iteration that displays.
C15_SpinnerCycle ==
    /\ spinner \in 0..3
    /\ Initialized =>
          /\ DisplayLines = 3..(2 + Cardinality(DisplayLines))
          /\ \A k \in DisplayLines :
                console[k].frame = <<"/", "-", "\\", "|">>[((k - 3) % 4) + 1]
          /\ spinner = Cardinality(DisplayLines) % 4

C15_Witness ==
    /\ pc = "while"
    /\ Cardinality(DisplayLines) = 5
    /\ console[3].frame = "/"
    /\ console[6].frame = "|"
    /\ console[7].frame = "/"
    /\ spinner = 1

\* C16: in every iteration the realtime class is requested first, the high
\* class is requested if and only if the realtime request was denied, and
\* whatever the outcomes the iteration goes on to its sample.  The body is
\* entered at the realtime request with no request made yet; that request
\* leads to the high request when denied and past it when granted; the high
\* request leads on whether granted or denied; and the step after the
\* requests begins the call of doMeasure.
C16_PriorityFallback ==
    [][ /\ (pc = "while" /\ pc' # pc) =>
              (pc' \in {"priority", "leave"} /\ requests' = <<>>)
        /\ (pc = "priority" /\ pc' # pc) =>
              /\ Len(requests') = 1
              /\ requests'[1].class = "REALTIME"
              /\ pc' = IF requests'[1].granted THEN "evict" ELSE "priority_high"
        /\ (pc = "priority_high" /\ pc' # pc) =>
              /\ Len(requests') = 2
              /\ requests'[1] = [class |-> "REALTIME", granted |-> FALSE]
              /\ requests'[2].class = "HIGH"
              /\ pc' = "evict"
        /\ pc = "evict" =>
              /\ Len(requests) = IF requests[1].granted THEN 1 ELSE 2
              /\ ENABLED evict
              /\ pc' # pc => (pc' = "measure" /\ measures' = measures + 1)
      ]_vars

C16_Witness ==
    /\ pc = "measure"
    /\ measures = 1
    /\ priorityClass = "NORMAL"
    /\ g_bRunning

\* C17: the shutdown handler only sets the running flag to false.  A step
\* that changes the flag clears it and changes nothing else of the program:
\* not the window, the weights, the frequency, the spinner index, the
\* position of the main thread nor the trial it is in, nor anything printed;
\* so no step of the main thread writes the flag, and the handler writes
\* nothing the main thread reads but the flag.
C17_HandlerFrame ==
    [][ (g_bRunning' # g_bRunning) =>
            /\ ~g_bRunning'
            /\ UNCHANGED <<results, weights, frequency, spinner, pc, i, delay,
                           sample, now, priorityClass, handlerSet, ret,
                           exitCode, console, diagnostic>>
      ]_vars

\* the flag has been cleared in the middle of a sample of a full window, and
\* the main thread has not moved since
C17_Witness ==
    /\ ~g_bRunning
    /\ pc = "measure"
    /\ stop = [pc |-> pc, i |-> i, sleeps |-> sleeps, measures |-> measures]
    /\ i \in 1..(TRIALS - 1)
    /\ Len(results) = WINDOW_SIZE - 1
    /\ Displayed
    /\ spinner = 1

\* C18: the running flag is monotone.  It is true when main begins; no step,
\* a further run of the handler included, sets a cleared flag back to true;
\* with the flag cleared the loop body is not entered again; and once the
\* loop has been left the main thread stays behind it and begins no sample:
\* no call of doMeasure, no Sleep.
C18_FlagMonotone ==
    [][ /\ pc = "main" => g_bRunning
        /\ ~g_bRunning => (~g_bRunning' /\ entered' = entered)
        /\ pc \in Left =>
              /\ pc' \in Left
              /\ ~g_bRunning'
              /\ measures' = measures
              /\ sleeps' = sleeps
              /\ pushed' = pushed
      ]_vars

\* the loop has been left, long after the flag was cleared in the middle of
\* a sample, and the handler can still run
C18_Witness ==
    /\ pc = "main_return"
    /\ ~g_bRunning
    /\ stop.pc = "measure"
    /\ stop.measures = WINDOW_SIZE
    /\ ENABLED ctrl_handler

\* the flag was cleared before the loop's first check
StoppedEarly == stop.pc \in {"tiimt_main", "while"} /\ stop.measures = 0

\* C19: the loop has no exit other than the flag.  The notice, the success
\* status and every position after the loop occur only where the handler has
\* run and the flag is cleared.  While the flag is set, the main thread of an
\* initialised program is inside the loop and has a next step (up to the
\* iterations the model follows).  And where the flag was cleared before the
\* first check the body never runs: no entry, no call of doMeasure, no
\* Sleep, nothing pushed or displayed, and the program still goes on to
\* its end, which is the notice and the success status.
C19_OnlyExitIsFlag ==
    /\ (pc \in Left \/ Notice \/ ret = EXIT_SUCCESS \/ exitCode = EXIT_SUCCESS) =>
          (handlerSet /\ stop.pc # "none" /\ ~g_bRunning)
    /\ (g_bRunning /\ Initialized /\ ~Faulted) =>
          /\ pc \in {"while", "priority", "priority_high", "evict", "display"}
                    \cup Sampling
          /\ (pc = "while" => entered < MaxIter) => ENABLED MainStep
    /\ StoppedEarly =>
          /\ entered = 0
          /\ measures = 0
          /\ sleeps = 0
          /\ pushed = <<>>
          /\ ~Displayed
          /\ pc \in {"tiimt_main", "while"} \cup Left
          /\ pc # "exited" => ENABLED MainStep
          /\ pc = "exited" => Stopped

C19_Witness ==
    /\ StoppedEarly
    /\ stop.pc = "tiimt_main"
    /\ Stopped
    /\ entered = 0
    /\ Len(console) = 3

====
